---- MODULE Spec2Model ----
(***************************************************************************)
(* github-comment: the "exec" controller (pkg/api/exec.go).                *)
(*                                                                         *)
(* Exec runs a command, picks the first rule of the configured list whose  *)
(* `when` expression is true, assembles a comment from it and looks for an *)
(* existing comment to edit (the last one that satisfies the update        *)
(* condition), then hands the comment to the posting controller.           *)
(*                                                                         *)
(* Expressions are token sequences: the controller builds the update       *)
(* condition by string concatenation (fmt.Sprintf), and the evaluator      *)
(* parses what it is given, so the text matters and not only its value.    *)
(***************************************************************************)
EXTENDS Integers, Sequences, FiniteSets, TLC

\* ------------------------------------------------------------------ bounds
MaxRules == 2          \* rules per template key in the configuration
MaxMatchRules == 3     \* rules in a list handed to getExecConfig on its own
MaxComments == 2       \* comments ListComments returns
MaxExecComments == 1   \* comments ListComments returns inside a whole Exec run

\* ------------------------------------------------------------- expressions
Atom(s) == [k |-> "atom", v |-> s]
AndOp == [k |-> "op", v |-> "&&"]
OrOp == [k |-> "op", v |-> "||"]
\* the text  Comment.Meta.Vars.target == "<t>"
TargetEq(t) == [k |-> "teq", v |-> t]

ATrue == Atom("true")
AFalse == Atom("false")
AExitCode == Atom("ExitCode != 0")
AHasMeta == Atom("Comment.HasMeta")
AKeyDefault == Atom("Comment.Meta.TemplateKey == \"default\"")

\* the empty string
EmptyExpr == << >>

\* The context of a rule's `when`: the ExecCommentParams, fields at top level.
ExecEnv(exitCode) == [kind |-> "exec", ExitCode |-> exitCode]
\* The context of an update condition: Comment.{Body,Meta,HasMeta}, Commit, Vars.
CommentEnv(comnt) == [kind |-> "comment", Comment |-> comnt]

NoValue == "<absent>"

\* One operand: "T", "F", or "E" when a referenced field is absent.
EvalAtom(tok, env) ==
  IF tok.k = "teq"
    THEN IF env.kind = "comment" /\ env.Comment.Target # NoValue
           THEN IF env.Comment.Target = tok.v THEN "T" ELSE "F"
           ELSE "E"
  ELSE IF tok.v = "true" THEN "T"
  ELSE IF tok.v = "false" THEN "F"
  ELSE IF tok.v = "ExitCode != 0"
    THEN IF env.kind = "exec"
           THEN IF env.ExitCode # 0 THEN "T" ELSE "F"
           ELSE "E"
  ELSE IF tok.v = "Comment.HasMeta"
    THEN IF env.kind = "comment"
           THEN IF env.Comment.HasMeta THEN "T" ELSE "F"
           ELSE "E"
  ELSE IF tok.v = "Comment.Meta.TemplateKey == \"default\""
    THEN IF env.kind = "comment" /\ env.Comment.HasMeta
           THEN IF env.Comment.TemplateKey = "default" THEN "T" ELSE "F"
           ELSE "E"
  ELSE "E"

\* operand (op operand)*
Compiles(toks) ==
  /\ Len(toks) % 2 = 1
  /\ \A n \in 1..Len(toks) : (toks[n].k = "op") <=> (n % 2 = 0)

\* a conjunction  a && b && ...  starting at token n, left to right,
\* stopping at the first operand that is not true
RECURSIVE EvalConj(_, _, _)
EvalConj(toks, n, env) ==
  LET v == EvalAtom(toks[n], env) IN
  IF v # "T" THEN v
  ELSE IF n + 1 > Len(toks) \/ toks[n + 1] = OrOp THEN "T"
  ELSE EvalConj(toks, n + 2, env)

\* the position after the conjunction that starts at n
RECURSIVE ConjEnd(_, _)
ConjEnd(toks, n) ==
  IF n + 1 > Len(toks) THEN Len(toks) + 1
  ELSE IF toks[n + 1] = OrOp THEN n + 1
  ELSE ConjEnd(toks, n + 2)

\* a disjunction of conjunctions (&& binds tighter than ||), left to right,
\* stopping at the first conjunction that is true or fails
RECURSIVE EvalDisj(_, _, _)
EvalDisj(toks, n, env) ==
  LET v == EvalConj(toks, n, env)
      e == ConjEnd(toks, n)
  IN IF v # "F" THEN v
     ELSE IF e > Len(toks) THEN "F"
     ELSE EvalDisj(toks, e + 1, env)

\* prg.Run(paramMap)
Run(toks, env) == EvalDisj(toks, 1, env)

\* ctrl.Expr.Match(expression, params): compile, then run
Match(toks, env) == IF Compiles(toks) THEN Run(toks, env) ELSE "E"

\* ------------------------------------------------------------------- data
NilValue == "<nil>"

\* a map with no entries (a nil map reads the same way)
EmptyMap == << >>

Get(m, k) == IF k \in DOMAIN m THEN m[k] ELSE NilValue

\* for k, v := range src { dst[k] = v }
Merge(dst, src) ==
  [k \in (DOMAIN dst) \cup (DOMAIN src) |-> IF k \in DOMAIN src THEN src[k] ELSE dst[k]]

contains(names, name) == \E n \in 1..Len(names) : names[n] = name

SeqsUpTo(S, n) == UNION {[1..m -> S] : m \in 0..n}

\* config.ExecConfig
Rule(when, uc, names, dont) ==
  [When |-> when, Template |-> "rule template", UpdateCondition |-> uc,
   EmbeddedVarNames |-> names, DontComment |-> dont]

\* the rule getExecConfigs makes up for the key "default"
DefaultRule ==
  Rule(<<AExitCode>>, <<AHasMeta, AndOp, AKeyDefault>>, << >>, FALSE)

\* `when` expressions; Comment.HasMeta is no field of ExecCommentParams
Whens == {<<ATrue>>, <<AFalse>>, <<AExitCode>>, <<AHasMeta>>}

\* rules that differ in `when` and dont_comment only
MatchRules == {Rule(w, EmptyExpr, << >>, d) : w \in Whens, d \in BOOLEAN}

\* the rules of the configured key "k1"
ExecRules ==
  {Rule(<<AExitCode>>, EmptyExpr, <<"foo">>, FALSE),
   Rule(<<AHasMeta>>, EmptyExpr, << >>, FALSE),
   Rule(<<ATrue>>, <<AHasMeta, OrOp>>, <<"target">>, FALSE),
   Rule(<<ATrue>>, EmptyExpr, << >>, TRUE)}

\* update conditions; the last one does not compile
UpdateConditions ==
  {<<ATrue>>, <<AHasMeta>>, <<AHasMeta, AndOp, AKeyDefault>>,
   <<AHasMeta, OrOp, AKeyDefault>>, <<AHasMeta, OrOp>>}

Targets == {"", "a"}

\* what extractMetaFromComment recovers from a body
Metas ==
  {[HasMeta |-> FALSE, TemplateKey |-> NoValue, Target |-> NoValue],
   [HasMeta |-> TRUE, TemplateKey |-> "default", Target |-> NoValue],
   [HasMeta |-> TRUE, TemplateKey |-> "k1", Target |-> "a"]}
    \cup {[HasMeta |-> TRUE, TemplateKey |-> "default", Target |-> t] : t \in Targets}

\* github.IssueComment, its body decoded
ExistingComments ==
  {[IsMinimized |-> z, Login |-> l, HasMeta |-> m.HasMeta,
    TemplateKey |-> m.TemplateKey, Target |-> m.Target] :
      z \in BOOLEAN, l \in {"me", "other"}, m \in Metas}

\* the comments ListComments returns inside a whole Exec run
ExecExistingComments ==
  {c \in ExistingComments : c.TemplateKey = "default" /\ c.Target = "a"}

\* comnt.DatabaseID of the n-th listed comment
DatabaseID(n) == 100 + n

\* no existing comment: the zero value of Comment.CommentID
NoID == 0

\* execute.Result and the error of Executor.Run
RunResults ==
  {[ExitCode |-> 0, execErr |-> FALSE],
   [ExitCode |-> 1, execErr |-> TRUE],
   [ExitCode |-> 2, execErr |-> TRUE]}

NoResult == [ExitCode |-> 0, execErr |-> FALSE]

NoComment == [made |-> FALSE, CommentID |-> NoID, PRNumber |-> 0, Vars |-> EmptyMap]

NoMatch == [idx |-> 0, found |-> FALSE, err |-> FALSE]

NoLocals == [tpl |-> "", embeddedVarNames |-> << >>, UpdateCondition |-> EmptyExpr]

Running == [kind |-> "running", code |-> 0]

\* ------------------------------------------------------------------ state
VARIABLES
  pc,               \* where the invocation stands
  opts,             \* option.ExecOptions
  cfg,              \* ctrl.Config: Exec (rules by template key) and Vars
  invoked,          \* calls of ctrl.Executor.Run
  result,           \* what Executor.Run returned
  execConfigs,      \* the rule list getExecConfigs picked
  ri,               \* getExecConfig: the rule the loop is at
  whenRun,          \* getExecConfig: the rules whose `when` was evaluated
  matchRet,         \* what getExecConfig returned
  loc,              \* getComment: tpl, embeddedVarNames, UpdateCondition
  embeddedMetadata, \* getComment: the variables embedded in the body
  cmt,              \* the github.Comment being assembled
  prg,              \* setUpdatedCommentID: the compiled condition
  login,            \* setUpdatedCommentID: the authenticated user
  comments,         \* setUpdatedCommentID: what ListComments returned
  ci,               \* setUpdatedCommentID: the comment the loop is at
  judged,           \* setUpdatedCommentID: the comments given to prg.Run
  postErr,          \* the error ctrl.post returned, if any
  posted,           \* the comments handed to CommentController.Post
  stderr,           \* lines Exec printed to ctrl.Stderr
  ret               \* what Exec returned

vars ==
  <<pc, opts, cfg, invoked, result, execConfigs, ri, whenRun, matchRet, loc,
    embeddedMetadata, cmt, prg, login, comments, ci, judged, postErr, posted,
    stderr, ret>>

matchVars == <<ri, whenRun, matchRet>>
resolveVars == <<prg, login, comments, ci, judged>>
outVars == <<postErr, posted, stderr, ret>>
inVars == <<opts, invoked, result, execConfigs>>

\* ------------------------------------------------------------ pure parts

\* ecerror.Wrap(execErr, result.ExitCode), or nil
ExecReturn(res) ==
  IF res.execErr
    THEN [kind |-> "exit", code |-> res.ExitCode]
    ELSE [kind |-> "nil", code |-> 0]

\* fmt.Errorf(...): an error that carries no exit code
PlainError(msg) == [kind |-> msg, code |-> 0]

getExecConfigs(c, o) ==
  IF o.Template = "" /\ o.TemplateKey # ""
    THEN IF o.TemplateKey \notin DOMAIN c.Exec
           THEN IF o.TemplateKey # "default"
                  THEN [err |-> TRUE, configs |-> << >>]
                  ELSE [err |-> FALSE, configs |-> <<DefaultRule>>]
           ELSE [err |-> FALSE, configs |-> c.Exec[o.TemplateKey]]
    ELSE [err |-> FALSE, configs |-> << >>]

\* option.ValidateExec; baseOK is the verdict of validate(&opts.Options)
ValidateExec(o, baseOK) ==
  IF ~baseOK THEN FALSE
  ELSE IF o.TemplateKey = "" THEN FALSE
  ELSE IF o.ArgsLen = 0 THEN FALSE
  ELSE TRUE

\* if cfg.Vars["target"] == nil { cfg.Vars["target"] = "" }
DefaultTarget(m) ==
  IF Get(m, "target") = NilValue THEN Merge(m, [k \in {"target"} |-> ""]) ELSE m

\* cfg.Vars after Exec has merged opts.Vars into it
ExecVars(c, o) == DefaultTarget(Merge(c.Vars, o.Vars))

\* faulty variant: the test of the loop inverted (if f { continue })
MatchOutcomeInverted(f) ==
  IF f = "E" THEN "error" ELSE IF f = "T" THEN "continue" ELSE "return"

\* faulty variant: an error of `when` skips the rule
MatchOutcomeSkipError(f) ==
  IF f = "T" THEN "return" ELSE "continue"

\* what the loop of getExecConfig does with the verdict of one `when`
MatchOutcome(f) ==
  IF f = "E" THEN "error" ELSE IF f = "F" THEN "continue" ELSE "return"

\* faulty variant: the declared names as they are
WithTargetOmitted(names) == names

\* if !contains(embeddedVarNames, "target") { append }
WithTarget(names) ==
  IF contains(names, "target") THEN names ELSE Append(names, "target")

\* embeddedMetadata: the named variables that are set
EmbeddedMetadata(names, m) ==
  [k \in {names[n] : n \in 1..Len(names)} \cap DOMAIN m |-> m[k]]

\* the update condition of the matched rule, or else the caller's
RuleUpdateCondition(rule, params) ==
  IF rule.UpdateCondition = EmptyExpr THEN params.UpdateCondition
  ELSE rule.UpdateCondition

\* fmt.Sprintf("%s && Comment.Meta.Vars.target == \"%s\"", updateCondition, target)
CustomUpdateCondition(updateCondition, target) ==
  updateCondition \o <<AndOp, TargetEq(target)>>

\* faulty variant: minimized comments are not passed over
IgnoredOtherUsersOnly(comnt, user) == user # "" /\ comnt.Login # user

\* the comments the loop of setUpdatedCommentID passes over
Ignored(comnt, user) ==
  comnt.IsMinimized \/ (user # "" /\ comnt.Login # user)

\* faulty variant: only a false verdict moves on (if err == nil && !f { continue })
RunOutcomeErrorSelects(f) == IF f = "F" THEN "continue" ELSE "select"

\* what the loop of setUpdatedCommentID does with the verdict of prg.Run
RunOutcome(f) ==
  IF f = "E" THEN "continue" ELSE IF f = "F" THEN "continue" ELSE "select"

\* faulty variant: the first match is kept
SelectFirstID(current, id) == IF current # NoID THEN current ELSE id

\* cmt.CommentID = comnt.DatabaseID
SelectID(current, id) == id

\* ---------------------------------------------------------------- actions

\* Exec, lines 36-40: Platform.ComplementExec
Complement ==
  /\ pc = "Exec"
  /\ \E ok \in BOOLEAN :
       IF ok
         THEN pc' = "resolvePR" /\ ret' = ret
         ELSE pc' = "done" /\ ret' = PlainError("complement opts")
  /\ UNCHANGED <<inVars, cfg, matchVars, loc, embeddedMetadata, cmt, resolveVars,
                 postErr, posted, stderr>>

\* Exec, lines 42-54: GitHub.PRNumberWithSHA, its error only logged
ResolvePR ==
  /\ pc = "resolvePR"
  /\ \E prNum \in {0, 1} :
       opts' = IF opts.PRNumber = 0 /\ opts.SHA1 # "" /\ prNum > 0
                 THEN [opts EXCEPT !.PRNumber = prNum]
                 ELSE opts
  /\ pc' = "run"
  /\ UNCHANGED <<cfg, invoked, result, execConfigs, matchVars, loc,
                 embeddedMetadata, cmt, resolveVars, outVars>>

\* Exec, lines 67-71: opts.Args[0] panics on an empty command line
RunCommand ==
  /\ pc = "run"
  /\ IF opts.ArgsLen = 0
       THEN /\ pc' = "done"
            /\ ret' = PlainError("panic")
            /\ UNCHANGED <<invoked, result>>
       ELSE /\ \E r \in RunResults : result' = r
            /\ invoked' = invoked + 1
            /\ pc' = "afterRun"
            /\ ret' = ret
  /\ UNCHANGED <<opts, cfg, execConfigs, matchVars, loc, embeddedMetadata, cmt,
                 resolveVars, postErr, posted, stderr>>

\* Exec, lines 73-83: the SkipComment return, then getExecConfigs
GetExecConfigs ==
  /\ pc = "afterRun"
  /\ LET r == getExecConfigs(cfg, opts) IN
     IF opts.SkipComment
       THEN pc' = "done" /\ ret' = ExecReturn(result) /\ UNCHANGED execConfigs
       ELSE IF r.err
         THEN pc' = "done" /\ ret' = PlainError("get config") /\ UNCHANGED execConfigs
         ELSE pc' = "validate" /\ ret' = ret /\ execConfigs' = r.configs
  /\ UNCHANGED <<opts, cfg, invoked, result, matchVars, loc, embeddedMetadata, cmt,
                 resolveVars, postErr, posted, stderr>>

\* Exec, lines 85-87
Validate ==
  /\ pc = "validate"
  /\ \E baseOK \in BOOLEAN :
       IF ValidateExec(opts, baseOK)
         THEN pc' = "vars" /\ ret' = ret
         ELSE pc' = "done" /\ ret' = PlainError("validate command options")
  /\ UNCHANGED <<inVars, cfg, matchVars, loc, embeddedMetadata, cmt, resolveVars,
                 postErr, posted, stderr>>

\* Exec, lines 89-97
SetVars ==
  /\ pc = "vars"
  /\ cfg' = [cfg EXCEPT !.Vars = ExecVars(cfg, opts)]
  /\ pc' = "getComment"
  /\ UNCHANGED <<inVars, matchVars, loc, embeddedMetadata, cmt, resolveVars, outVars>>

\* getComment, lines 213-217: a literal template skips the rules
GetComment ==
  /\ pc = "getComment"
  /\ loc' = [tpl |-> opts.Template, embeddedVarNames |-> << >>,
             UpdateCondition |-> EmptyExpr]
  /\ pc' = IF opts.Template = "" THEN "getExecConfig" ELSE "render"
  /\ UNCHANGED <<inVars, cfg, matchVars, embeddedMetadata, cmt, resolveVars, outVars>>

\* getExecConfig, lines 197-207: one turn of the loop, or its end
GetExecConfig ==
  /\ pc = "getExecConfig"
  /\ IF ri > Len(execConfigs)
       THEN /\ matchRet' = NoMatch
            /\ pc' = "matched"
            /\ UNCHANGED <<ri, whenRun>>
       ELSE LET f == Match(execConfigs[ri].When, ExecEnv(result.ExitCode))
                o == MatchOutcome(f)
            IN /\ whenRun' = whenRun \cup {ri}
               /\ IF o = "error"
                    THEN /\ matchRet' = [idx |-> 0, found |-> FALSE, err |-> TRUE]
                         /\ pc' = "matched"
                         /\ ri' = ri
                    ELSE IF o = "continue"
                      THEN /\ ri' = ri + 1
                           /\ pc' = pc
                           /\ matchRet' = matchRet
                      ELSE /\ matchRet' = [idx |-> ri, found |-> TRUE, err |-> FALSE]
                           /\ pc' = "matched"
                           /\ ri' = ri
  /\ UNCHANGED <<inVars, cfg, loc, embeddedMetadata, cmt, resolveVars, outVars>>

\* getComment, lines 218-236
Matched ==
  /\ pc = "matched"
  /\ IF matchRet.err
       THEN postErr' = TRUE /\ pc' = "postReturn" /\ loc' = loc
       ELSE IF ~matchRet.found \/ execConfigs[matchRet.idx].DontComment
         THEN postErr' = postErr /\ pc' = "postReturn" /\ loc' = loc
         ELSE LET rule == execConfigs[matchRet.idx] IN
              /\ loc' = [tpl |-> rule.Template,
                         embeddedVarNames |-> rule.EmbeddedVarNames,
                         UpdateCondition |-> RuleUpdateCondition(rule, opts)]
              /\ postErr' = postErr
              /\ pc' = "render"
  /\ UNCHANGED <<inVars, cfg, matchVars, embeddedMetadata, cmt, resolveVars,
                 posted, stderr, ret>>

\* getComment, lines 238-245: Renderer.Render of both templates
Render ==
  /\ pc = "render"
  /\ \E ok \in BOOLEAN :
       IF ok
         THEN pc' = "embed" /\ postErr' = postErr
         ELSE pc' = "postReturn" /\ postErr' = TRUE
  /\ UNCHANGED <<inVars, cfg, matchVars, loc, embeddedMetadata, cmt, resolveVars,
                 posted, stderr, ret>>

\* getComment, lines 254-272: the embedded variables and getEmbeddedComment
Embed ==
  /\ pc = "embed"
  /\ loc' = [loc EXCEPT !.embeddedVarNames = WithTarget(loc.embeddedVarNames)]
  /\ embeddedMetadata' = EmbeddedMetadata(WithTarget(loc.embeddedVarNames), cfg.Vars)
  /\ \E ok \in BOOLEAN :
       IF ok
         THEN pc' = "assemble" /\ postErr' = postErr
         ELSE pc' = "postReturn" /\ postErr' = TRUE
  /\ UNCHANGED <<inVars, cfg, matchVars, cmt, resolveVars, posted, stderr, ret>>

\* getComment, lines 277-291
Assemble ==
  /\ pc = "assemble"
  /\ cmt' = [made |-> TRUE, CommentID |-> NoID, PRNumber |-> opts.PRNumber,
             Vars |-> cfg.Vars]
  /\ pc' = IF loc.UpdateCondition # EmptyExpr /\ opts.PRNumber # 0
             THEN "setUpdatedCommentID" ELSE "post"
  /\ UNCHANGED <<inVars, cfg, matchVars, loc, embeddedMetadata, resolveVars, outVars>>

\* setUpdatedCommentID, lines 297-301
Compile ==
  /\ pc = "setUpdatedCommentID"
  /\ LET custom == CustomUpdateCondition(loc.UpdateCondition, cfg.Vars["target"]) IN
     IF Compiles(custom)
       THEN prg' = custom /\ pc' = "getUser" /\ UNCHANGED <<postErr, cmt>>
       ELSE prg' = prg /\ pc' = "postReturn" /\ postErr' = TRUE /\ cmt' = NoComment
  /\ UNCHANGED <<inVars, cfg, matchVars, loc, embeddedMetadata, login, comments, ci,
                 judged, posted, stderr, ret>>

\* setUpdatedCommentID, lines 303-306: an error leaves the login empty
GetAuthenticatedUser ==
  /\ pc = "getUser"
  /\ \E l \in {"", "me"} : login' = l
  /\ pc' = "listComments"
  /\ UNCHANGED <<inVars, cfg, matchVars, loc, embeddedMetadata, cmt, prg, comments,
                 ci, judged, outVars>>

\* setUpdatedCommentID, lines 308-315
ListComments(listings) ==
  /\ pc = "listComments"
  /\ \/ /\ \E cs \in listings : comments' = cs
        /\ ci' = 1
        /\ pc' = "scan"
        /\ UNCHANGED <<postErr, cmt>>
     \/ /\ pc' = "postReturn"
        /\ postErr' = TRUE
        /\ cmt' = NoComment
        /\ UNCHANGED <<comments, ci>>
  /\ UNCHANGED <<inVars, cfg, matchVars, loc, embeddedMetadata, prg, login, judged,
                 posted, stderr, ret>>

\* setUpdatedCommentID, lines 322-366: one turn of the loop, or its end
Scan ==
  /\ pc = "scan"
  /\ IF ci > Len(comments)
       THEN pc' = "post" /\ UNCHANGED <<ci, judged, cmt>>
       ELSE /\ pc' = pc
            /\ ci' = ci + 1
            /\ IF Ignored(comments[ci], login)
                 THEN UNCHANGED <<judged, cmt>>
                 ELSE /\ judged' = judged \cup {ci}
                      /\ cmt' = IF RunOutcome(Run(prg, CommentEnv(comments[ci]))) = "select"
                                  THEN [cmt EXCEPT !.CommentID =
                                          SelectID(cmt.CommentID, DatabaseID(ci))]
                                  ELSE cmt
  /\ UNCHANGED <<inVars, cfg, matchVars, loc, embeddedMetadata, prg, login, comments,
                 outVars>>

\* post, lines 373-401: CommentController.Post
Post ==
  /\ pc = "post"
  /\ posted' = Append(posted, cmt)
  /\ \E ok \in BOOLEAN : postErr' = ~ok
  /\ pc' = "postReturn"
  /\ UNCHANGED <<inVars, cfg, matchVars, loc, embeddedMetadata, cmt, resolveVars,
                 stderr, ret>>

\* faulty variant: the error of post is returned
PostReturnPostError ==
  /\ pc = "postReturn"
  /\ stderr' = IF postErr /\ ~opts.Silent THEN stderr + 1 ELSE stderr
  /\ ret' = IF postErr THEN PlainError("post") ELSE ExecReturn(result)
  /\ pc' = "done"
  /\ UNCHANGED <<inVars, cfg, matchVars, loc, embeddedMetadata, cmt, resolveVars,
                 postErr, posted>>

\* Exec, lines 125-133
PostReturn ==
  /\ pc = "postReturn"
  /\ stderr' = IF postErr /\ ~opts.Silent THEN stderr + 1 ELSE stderr
  /\ ret' = ExecReturn(result)
  /\ pc' = "done"
  /\ UNCHANGED <<inVars, cfg, matchVars, loc, embeddedMetadata, cmt, resolveVars,
                 postErr, posted>>

\* --------------------------------------------------------- specifications

\* a pull request number needs no commit, and an empty command line panics
\* before any other option is read
Plausible(o) ==
  /\ (o.PRNumber # 0) => (o.SHA1 = "")
  /\ (o.ArgsLen = 0) =>
       (/\ o.Template = ""
        /\ o.TemplateKey = "k1"
        /\ ~o.SkipComment
        /\ ~o.Silent
        /\ o.PRNumber = 1
        /\ o.UpdateCondition = EmptyExpr
        /\ o.Vars = EmptyMap)

ExecOptions ==
  {o \in [Template : {"", "literal"},
          TemplateKey : {"", "default", "k1", "k2"},
          ArgsLen : {0, 1},
          SkipComment : BOOLEAN,
          Silent : BOOLEAN,
          PRNumber : {0, 1},
          SHA1 : {"", "sha"},
          UpdateCondition : {EmptyExpr, <<AHasMeta>>},
          Vars : {EmptyMap, [k \in {"target"} |-> "a"]}] : Plausible(o)}

Configs ==
  [Exec : [{"k1"} -> SeqsUpTo(ExecRules, MaxRules)],
   Vars : {EmptyMap, [k \in {"target", "foo"} |-> IF k = "foo" THEN "b" ELSE NilValue]}]

Fresh ==
  /\ invoked = 0
  /\ result = NoResult
  /\ execConfigs = << >>
  /\ ri = 1
  /\ whenRun = {}
  /\ matchRet = NoMatch
  /\ loc = NoLocals
  /\ embeddedMetadata = EmptyMap
  /\ cmt = NoComment
  /\ prg = EmptyExpr
  /\ login = ""
  /\ comments = << >>
  /\ ci = 1
  /\ judged = {}
  /\ postErr = FALSE
  /\ posted = << >>
  /\ stderr = 0
  /\ ret = Running

\* an invocation of Exec
Init ==
  /\ pc = "Exec"
  /\ opts \in ExecOptions
  /\ cfg \in Configs
  /\ Fresh

Next ==
  \/ Complement
  \/ ResolvePR
  \/ RunCommand
  \/ GetExecConfigs
  \/ Validate
  \/ SetVars
  \/ GetComment
  \/ GetExecConfig
  \/ Matched
  \/ Render
  \/ Embed
  \/ Assemble
  \/ Compile
  \/ GetAuthenticatedUser
  \/ ListComments(SeqsUpTo(ExecExistingComments, MaxExecComments))
  \/ Scan
  \/ Post
  \/ PostReturn

Spec == Init /\ [][Next]_vars

\* the options of an invocation that has reached getComment
PlainOptions ==
  [Template |-> "", TemplateKey |-> "k1", ArgsLen |-> 1, SkipComment |-> FALSE,
   Silent |-> FALSE, PRNumber |-> 1, SHA1 |-> "", UpdateCondition |-> EmptyExpr,
   Vars |-> EmptyMap]

\* getExecConfig on its own: any rule list, any exit code
InitMatch ==
  /\ pc = "getExecConfig"
  /\ opts = PlainOptions
  /\ execConfigs \in SeqsUpTo(MatchRules, MaxMatchRules)
  /\ cfg = [Exec |-> [k \in {"k1"} |-> execConfigs], Vars |-> [k \in {"target"} |-> ""]]
  /\ invoked = 1
  /\ result \in RunResults
  /\ ri = 1
  /\ whenRun = {}
  /\ matchRet = NoMatch
  /\ loc = NoLocals
  /\ embeddedMetadata = EmptyMap
  /\ cmt = NoComment
  /\ prg = EmptyExpr
  /\ login = ""
  /\ comments = << >>
  /\ ci = 1
  /\ judged = {}
  /\ postErr = FALSE
  /\ posted = << >>
  /\ stderr = 0
  /\ ret = Running

NextMatch == GetExecConfig

SpecMatch == InitMatch /\ [][NextMatch]_vars

\* setUpdatedCommentID on its own: any update condition, target, user and
\* listing of the pull request's comments
InitResolve ==
  /\ pc = "setUpdatedCommentID"
  /\ opts = PlainOptions
  /\ execConfigs = << >>
  /\ \E t \in Targets :
       /\ cfg = [Exec |-> [k \in {"k1"} |-> << >>], Vars |-> [k \in {"target"} |-> t]]
       /\ cmt = [made |-> TRUE, CommentID |-> NoID, PRNumber |-> 1,
                 Vars |-> [k \in {"target"} |-> t]]
  /\ invoked = 1
  /\ result = NoResult
  /\ ri = 1
  /\ whenRun = {}
  /\ matchRet = NoMatch
  /\ \E uc \in UpdateConditions :
       loc = [tpl |-> "literal", embeddedVarNames |-> <<"target">>,
              UpdateCondition |-> uc]
  /\ embeddedMetadata = cmt.Vars
  /\ prg = EmptyExpr
  /\ login = ""
  /\ comments = << >>
  /\ ci = 1
  /\ judged = {}
  /\ postErr = FALSE
  /\ posted = << >>
  /\ stderr = 0
  /\ ret = Running

NextResolve ==
  \/ Compile
  \/ GetAuthenticatedUser
  \/ ListComments(SeqsUpTo(ExistingComments, MaxComments))
  \/ Scan

SpecResolve == InitResolve /\ [][NextResolve]_vars

\* ------------------------------------------------------------- properties

Min(S) == CHOOSE x \in S : \A y \in S : x <= y
Max(S) == CHOOSE x \in S : \A y \in S : x >= y

\* the verdict of the n-th rule's `when` for the command's exit code
WhenVerdict(n) == Match(execConfigs[n].When, ExecEnv(result.ExitCode))

TrueRules == {n \in 1..Len(execConfigs) : WhenVerdict(n) = "T"}

\* C1: getExecConfig is first-match. When no `when` failed, it returns the
\* rule of the smallest index whose `when` is true, whatever the rules after
\* it are, and evaluates none of them; it returns found=false with no rule
\* exactly when the list is empty or every `when` is false.
C1_FirstMatch ==
  (pc = "matched" /\ ~matchRet.err) =>
    IF TrueRules = {}
      THEN /\ matchRet = [idx |-> 0, found |-> FALSE, err |-> FALSE]
           /\ whenRun = 1..Len(execConfigs)
      ELSE /\ matchRet = [idx |-> Min(TrueRules), found |-> TRUE, err |-> FALSE]
           /\ whenRun = 1..Min(TrueRules)

\* the second of three rules returned, the third one true as well and
\* flagged dont_comment
C1_Witness ==
  /\ pc = "matched"
  /\ Len(execConfigs) = 3
  /\ matchRet.found /\ matchRet.idx = 2
  /\ WhenVerdict(1) = "F"
  /\ WhenVerdict(3) = "T" /\ execConfigs[3].DontComment
  /\ ~execConfigs[2].DontComment

\* the n-th listed comment is not minimized and, if the user is known, is the user's
Eligible(n) ==
  /\ ~comments[n].IsMinimized
  /\ login = "" \/ comments[n].Login = login

\* the verdict of the compiled condition on the n-th listed comment
Verdict(n) == Run(prg, CommentEnv(comments[n]))

\* the eligible comments before position n on which the condition is true
Qualifying(n) == {m \in 1..(n - 1) : Eligible(m) /\ Verdict(m) = "T"}

\* the id of the last comment of a set of positions, if any
LastID(S) == IF S = {} THEN NoID ELSE DatabaseID(Max(S))

\* C2: update resolution is last-match-wins. Once the listing is scanned, the
\* comment id is that of the last listed comment that is eligible and on
\* which the augmented update condition is true, and unset if there is none.
C2_LastMatchWins ==
  (pc = "post" /\ prg # EmptyExpr) =>
    /\ cmt.made
    /\ cmt.CommentID = LastID(Qualifying(Len(comments) + 1))

\* two comments qualify and the second is taken
C2_Witness ==
  /\ pc = "post"
  /\ Len(comments) = 2
  /\ Qualifying(3) = {1, 2}
  /\ cmt.CommentID = DatabaseID(2)

\* the listed comment with a given id
Selected(id) == {n \in 1..Len(comments) : DatabaseID(n) = id}

\* C3: update resolution never selects a minimized comment nor, when the
\* authenticated login is known, a comment of another author, even if the
\* condition is true on it; when every comment is minimized the id is unset.
C3_NeverMinimizedNorForeign ==
  /\ cmt.CommentID # NoID =>
       \E n \in Selected(cmt.CommentID) :
         /\ ~comments[n].IsMinimized
         /\ login # "" => comments[n].Login = login
  /\ (pc = "post" /\ \A n \in 1..Len(comments) : comments[n].IsMinimized) =>
       cmt.CommentID = NoID

\* two minimized comments on which the condition is true, the first of them
\* by another author than the authenticated user: nothing is selected
C3_Witness ==
  /\ pc = "post"
  /\ Len(comments) = 2
  /\ \A n \in 1..2 : comments[n].IsMinimized /\ Verdict(n) = "T"
  /\ comments[1].Login = "other" /\ login = "me"
  /\ cmt.CommentID = NoID

\* C4: target isolation. Update resolution never selects an existing comment
\* whose embedded target differs from the current target, or that embeds no
\* target, whatever the base update condition is.
C4_TargetIsolation ==
  cmt.CommentID # NoID =>
    \A n \in Selected(cmt.CommentID) : comments[n].Target = cfg.Vars["target"]

\* the eligible comments before position n on which the evaluation failed
Failing(n) == {m \in 1..(n - 1) : Eligible(m) /\ Verdict(m) = "E"}

\* C9: an evaluation error on an existing comment counts as a false verdict.
\* The scan goes on without an error, the comments after it are evaluated,
\* and the id selected so far is neither cleared nor replaced.
C9_ErrorIsNoMatch ==
  (pc \in {"scan", "post"} /\ prg # EmptyExpr /\ Failing(ci) # {}) =>
    /\ ~postErr
    /\ cmt.made
    /\ judged = {m \in 1..(ci - 1) : Eligible(m)}
    /\ cmt.CommentID = LastID(Qualifying(ci))
    /\ pc = "post" => ci = Len(comments) + 1

\* the first comment qualifies, the evaluation fails on the second, and the
\* first one stays selected
C9_Witness ==
  /\ pc = "post"
  /\ Len(comments) = 2
  /\ Eligible(1) /\ Verdict(1) = "T"
  /\ Eligible(2) /\ Verdict(2) = "E"
  /\ judged = {1, 2}
  /\ cmt.CommentID = DatabaseID(1)

\* the comment step was entered: post returned an error or handed a comment
\* to the posting controller
CommentStepTaken == postErr \/ Len(posted) > 0

\* C5: a failure of the comment step never masks the command's outcome. If
\* the command failed, Exec returns an error with the command's exit code
\* even if assembling or posting failed too; if it succeeded, Exec returns
\* nil; the error of the comment step is printed unless Silent is set.
C5_PostErrorNeverMasks ==
  (pc = "done" /\ CommentStepTaken) =>
    /\ invoked = 1
    /\ result.execErr => ret = [kind |-> "exit", code |-> result.ExitCode]
    /\ ~result.execErr => ret = [kind |-> "nil", code |-> 0]
    /\ stderr = IF postErr /\ ~opts.Silent THEN 1 ELSE 0

\* the command left with 2, posting failed, and Exec returns exit code 2
C5_Witness ==
  /\ pc = "done"
  /\ postErr /\ Len(posted) = 1
  /\ result.execErr /\ result.ExitCode = 2
  /\ ret = [kind |-> "exit", code |-> 2]
  /\ stderr = 1

\* Exec ended with an unknown template key or a missing required option
ConfigError == ret.kind \in {"get config", "validate command options"}

\* C6: a ConfigError aborts Exec before any side effect: the executor was
\* never invoked and no comment was posted.
C6_ConfigErrorBeforeSideEffects ==
  (pc = "done" /\ ConfigError) => (invoked = 0 /\ posted = << >>)

\* C7: with a literal template the rules are skipped and the caller's update
\* condition is used: with a pull request number, update resolution is
\* performed with it before the comment is posted.
C7_LiteralTemplateUsesCallerCondition ==
  (/\ pc = "post"
   /\ opts.Template # ""
   /\ opts.UpdateCondition # EmptyExpr
   /\ opts.PRNumber # 0) =>
    /\ whenRun = {}
    /\ loc.UpdateCondition = opts.UpdateCondition
    /\ prg = CustomUpdateCondition(opts.UpdateCondition, cfg.Vars["target"])

\* the names of a list
Names(names) == {names[n] : n \in 1..Len(names)}

\* Exec is past the defaulting of Vars["target"]
PastVars ==
  \/ whenRun # {}
  \/ pc \in {"getComment", "getExecConfig", "matched", "render", "embed", "assemble",
             "setUpdatedCommentID", "getUser", "listComments", "scan", "post"}

\* C8: every assembled comment embeds the target. Vars["target"] has a value
\* before any rule is evaluated or anything rendered, "target" is among the
\* embedded names whatever the rule declares, and the embedded variables are
\* exactly the invocation's variables with these names.
C8_TargetEmbedded ==
  /\ PastVars => Get(cfg.Vars, "target") # NilValue
  /\ cmt.made =>
       /\ contains(loc.embeddedVarNames, "target")
       /\ matchRet.found =>
            Names(execConfigs[matchRet.idx].EmbeddedVarNames)
              \subseteq Names(loc.embeddedVarNames)
       /\ DOMAIN embeddedMetadata = Names(loc.embeddedVarNames) \cap DOMAIN cmt.Vars
       /\ \A k \in DOMAIN embeddedMetadata : embeddedMetadata[k] = cmt.Vars[k]
       /\ "target" \in DOMAIN embeddedMetadata
       /\ embeddedMetadata["target"] # NilValue

\* a rule that declares ["foo"], no target given: foo and an empty target
C8_Witness ==
  /\ cmt.made
  /\ matchRet.found
  /\ execConfigs[matchRet.idx].EmbeddedVarNames = <<"foo">>
  /\ "target" \notin DOMAIN opts.Vars
  /\ DOMAIN embeddedMetadata = {"foo", "target"}
  /\ embeddedMetadata["target"] = ""

\* the rules whose `when` fails with every rule before them false
FirstErrors ==
  {n \in 1..Len(execConfigs) :
     /\ WhenVerdict(n) = "E"
     /\ \A m \in 1..(n - 1) : WhenVerdict(m) = "F"}

\* the rules were tried and the loop has ended on a failing `when`
EndedOnWhenError ==
  /\ whenRun # {}
  /\ pc # "getExecConfig"
  /\ FirstErrors # {}

\* C10 as stated: an error of a rule's `when` before any rule matched is fatal
\* for the invocation: no later rule is evaluated, no comment is assembled or
\* posted, and Exec ends with an error.
C10_WhenErrorFailsExec ==
  (pc = "done" /\ EndedOnWhenError) =>
    /\ \A n \in FirstErrors : whenRun = 1..n
    /\ ~cmt.made
    /\ posted = << >>
    /\ ret.kind # "nil"

\* C10 amended: an error of a rule's `when` before any rule matched ends rule
\* matching and the comment: no later rule is evaluated, no comment is
\* assembled or posted, and the error is printed unless Silent is set. The
\* result of Exec is the command's alone: nil if the command succeeded, the
\* error with its exit code if it failed.
C10_WhenErrorAbortsComment ==
  EndedOnWhenError =>
    /\ \A n \in FirstErrors : whenRun = 1..n
    /\ ~cmt.made
    /\ posted = << >>
    /\ pc = "done" =>
         /\ postErr
         /\ stderr = IF opts.Silent THEN 0 ELSE 1
         /\ ret = IF result.execErr
                    THEN [kind |-> "exit", code |-> result.ExitCode]
                    ELSE [kind |-> "nil", code |-> 0]

\* the first rule fails, the second would match, the command succeeded:
\* nothing is posted and Exec returns nil
C10_Witness ==
  /\ pc = "done"
  /\ Len(execConfigs) = 2
  /\ FirstErrors = {1}
  /\ WhenVerdict(2) = "T"
  /\ whenRun = {1}
  /\ posted = << >>
  /\ ~result.execErr
  /\ ret.kind = "nil"
  /\ stderr = 1

====
